---- MODULE Spec2Model ----
(***************************************************************************)
(* The Disneyland reviews analyser: the aggregation functions of           *)
(* process.py and the menu loop of main.py.                                *)
(*                                                                         *)
(* Strings are sequences of one-character strings, so that lower(),        *)
(* startswith(), split("-") and substring containment are computed as      *)
(* Python computes them.  An average is the exact rational sum/len in      *)
(* lowest terms: for the small integers of this model two float quotients  *)
(* are equal exactly when the rationals are, and ordered the same way.     *)
(***************************************************************************)
EXTENDS Integers, Sequences, FiniteSets, TLC

VARIABLES reviews, call, result, pc, entered, typed, screen, files

vars == <<reviews, call, result, pc, entered, typed, screen, files>>

----------------------------------------------------------------------------
(* Bounds of the model *)

\* longest dataset of the queries by year and by month
MaxLenP == 2

\* longest dataset of the rankings and groupings
MaxLen == 3

\* longest dataset loaded by the interactive program
MaxRows == 2

\* largest `top` handed to top_locations_for_park
MaxTop == 2

----------------------------------------------------------------------------
(* Strings *)

Str_2019_01 == <<"2", "0", "1", "9", "-", "0", "1">>
Str_2020_02 == <<"2", "0", "2", "0", "-", "0", "2">>
Str_2019_13 == <<"2", "0", "1", "9", "-", "1", "3">>
Str_2019 == <<"2", "0", "1", "9">>
Str_2019_01_05 == <<"2", "0", "1", "9", "-", "0", "1", "-", "0", "5">>
Str_2019_1 == <<"2", "0", "1", "9", "-", "1">>
Str_2020 == <<"2", "0", "2", "0">>
Str_19 == <<"1", "9">>
Str_20x9 == <<"2", "0", "x", "9">>
Str_Paris == <<"P", "a", "r", "i", "s">>
Str_paris == <<"p", "a", "r", "i", "s">>
Str_PARIS == <<"P", "A", "R", "I", "S">>
Str_Rome == <<"R", "o", "m", "e">>
Str_US == <<"U", "S">>
Str_us == <<"u", "s">>
Str_s == <<"s">>
Str_20190 == <<"2", "0", "1", "9", "0">>
Str_txt == <<"t", "x", "t">>
Str_CSV == <<"C", "S", "V">>
Str_Json == <<"J", "s", "o", "n">>
Str_xml == <<"x", "m", "l">>
Str_Blank == <<" ">>
Str_summary_dot == <<"s", "u", "m", "m", "a", "r", "y", ".">>

ToLower ==
    ("P" :> "p") @@ ("A" :> "a") @@ ("R" :> "r") @@ ("I" :> "i") @@
    ("S" :> "s") @@ ("U" :> "u") @@ ("O" :> "o") @@ ("M" :> "m") @@
    ("E" :> "e") @@ ("T" :> "t") @@ ("X" :> "x") @@ ("C" :> "c") @@
    ("V" :> "v") @@ ("J" :> "j") @@ ("N" :> "n") @@ ("B" :> "b") @@
    ("L" :> "l")

ToUpper ==
    ("p" :> "P") @@ ("a" :> "A") @@ ("r" :> "R") @@ ("i" :> "I") @@
    ("s" :> "S") @@ ("u" :> "U") @@ ("o" :> "O") @@ ("m" :> "M") @@
    ("e" :> "E") @@ ("t" :> "T") @@ ("x" :> "X") @@ ("c" :> "C") @@
    ("v" :> "V") @@ ("j" :> "J") @@ ("n" :> "N") @@ ("b" :> "B") @@
    ("l" :> "L")

\* str.lower()
lower(s) == [i \in 1..Len(s) |-> IF s[i] \in DOMAIN ToLower THEN ToLower[s[i]] ELSE s[i]]

\* str.upper()
upper(s) == [i \in 1..Len(s) |-> IF s[i] \in DOMAIN ToUpper THEN ToUpper[s[i]] ELSE s[i]]

\* str.startswith(prefix)
startswith(s, prefix) ==
    /\ Len(prefix) <= Len(s)
    /\ SubSeq(s, 1, Len(prefix)) = prefix

\* `sub in s` on strings
contains(s, sub) ==
    \E i \in 0..(Len(s) - Len(sub)) : SubSeq(s, i + 1, i + Len(sub)) = sub

\* str.split("-"): the pieces between the dashes, empty pieces included
RECURSIVE split_from(_, _, _)
split_from(s, i, piece) ==
    IF i > Len(s) THEN <<piece>>
    ELSE IF s[i] = "-" THEN <<piece>> \o split_from(s, i + 1, <<>>)
    ELSE split_from(s, i + 1, Append(piece, s[i]))

split(s) == split_from(s, 1, <<>>)

\* str.strip(): without the leading and trailing spaces
RECURSIVE strip(_)
strip(s) ==
    IF s = <<>> THEN s
    ELSE IF s[1] = " " THEN strip(Tail(s))
    ELSE IF s[Len(s)] = " " THEN strip(SubSeq(s, 1, Len(s) - 1))
    ELSE s

Digits == {"0", "1", "2", "3", "4", "5", "6", "7", "8", "9"}

\* str.isdigit(): non-empty and every character a digit
isdigit(s) == Len(s) > 0 /\ \A i \in 1..Len(s) : s[i] \in Digits

----------------------------------------------------------------------------
(* Numbers *)

Abs(x) == IF x < 0 THEN -x ELSE x

RECURSIVE GCD(_, _)
GCD(a, b) == IF b = 0 THEN a ELSE GCD(b, a % b)

\* s / n for integers s and n > 0, as a rational in lowest terms
Div(s, n) ==
    LET g == GCD(Abs(s), n)
    IN  [num |-> s \div g, den |-> n \div g]

Zero == [num |-> 0, den |-> 1]

\* a < b on rationals
Less(a, b) == a.num * b.den < b.num * a.den

RECURSIVE sum(_)
sum(v) == IF v = <<>> THEN 0 ELSE v[1] + sum(Tail(v))

\* x in hundredths, rounded to the nearest, an exact tie going to the even
\* one.  A tie needs a denominator divisible by 8.
hundredths(x) ==
    LET n == 100 * x.num
        q == n \div x.den
        r == n % x.den
    IN  IF 2 * r < x.den THEN q
        ELSE IF 2 * r > x.den THEN q + 1
        ELSE IF q % 2 = 0 THEN q ELSE q + 1

\* round(x, 2)
round2(x) == Div(hundredths(x), 100)

DigitChar == <<"0", "1", "2", "3", "4", "5", "6", "7", "8", "9">>

\* the decimal digits of n >= 0
RECURSIVE digits(_)
digits(n) ==
    IF n < 10 THEN <<DigitChar[n + 1]>>
    ELSE Append(digits(n \div 10), DigitChar[(n % 10) + 1])

\* f"{x:.2f}"
format_2f(x) ==
    LET h == hundredths(x)
    IN  (IF h < 0 THEN <<"-">> ELSE <<>>) \o digits(Abs(h) \div 100) \o <<".">>
            \o <<DigitChar[((Abs(h) \div 10) % 10) + 1], DigitChar[(Abs(h) % 10) + 1]>>

\* Python's None
None == [none |-> TRUE]

----------------------------------------------------------------------------
(* The record model *)

Review(id, rating, year_month, location, park) ==
    [id |-> id, rating |-> rating, year_month |-> year_month,
     location |-> location, park |-> park]

\* defaultdict(list): d[k].append(v) on a dict kept in insertion order
dict_append(d, k, v) ==
    IF \E i \in 1..Len(d) : d[i].key = k
    THEN [i \in 1..Len(d) |->
            IF d[i].key = k THEN [d[i] EXCEPT !.vals = Append(@, v)] ELSE d[i]]
    ELSE Append(d, [key |-> k, vals |-> <<v>>])

\* {k: sum(v) / len(v) for k, v in stats.items()}
averages(stats) ==
    [i \in 1..Len(stats) |->
        [key |-> stats[i].key, avg |-> Div(sum(stats[i].vals), Len(stats[i].vals))]]

----------------------------------------------------------------------------
(* process.py: the aggregation functions *)

\* [f(r) for r in reviews]
ratings_of(rs) == [i \in 1..Len(rs) |-> rs[i].rating]

same_park(r, park) == lower(r.park) = lower(park)

\* as get_reviews_by_park, but the park is compared as written
get_reviews_by_park_exact(rs, park) ==
    SelectSeq(rs, LAMBDA r : r.park = park)

get_reviews_by_park(rs, park) ==
    SelectSeq(rs, LAMBDA r : same_park(r, park))

count_reviews_by_park_and_location(rs, park, location) ==
    Len(SelectSeq(rs, LAMBDA r :
            same_park(r, park) /\ contains(lower(r.location), lower(location))))

\* as avg_rating_by_park_year, but an empty selection averages to 0
avg_rating_by_park_year_zero(rs, park, year) ==
    LET ratings == ratings_of(SelectSeq(rs, LAMBDA r :
                        same_park(r, park) /\ startswith(r.year_month, year)))
    IN  IF ratings # <<>> THEN Div(sum(ratings), Len(ratings)) ELSE Zero

avg_rating_by_park_year(rs, park, year) ==
    LET ratings == ratings_of(SelectSeq(rs, LAMBDA r :
                        same_park(r, park) /\ startswith(r.year_month, year)))
    IN  IF ratings # <<>> THEN Div(sum(ratings), Len(ratings)) ELSE None

\* Counter(iterable): one count per distinct element, in first-seen order
RECURSIVE Counter(_, _, _)
Counter(rs, i, c) ==
    IF i > Len(rs) THEN c
    ELSE LET k == rs[i].park
         IN  IF \E j \in 1..Len(c) : c[j].key = k
             THEN Counter(rs, i + 1,
                    [j \in 1..Len(c) |->
                        IF c[j].key = k THEN [c[j] EXCEPT !.count = @ + 1] ELSE c[j]])
             ELSE Counter(rs, i + 1, Append(c, [key |-> k, count |-> 1]))

\* as reviews_count_per_park, but counting r.park.lower()
reviews_count_per_park_folded(rs) ==
    Counter([i \in 1..Len(rs) |-> [rs[i] EXCEPT !.park = lower(@)]], 1, <<>>)

reviews_count_per_park(rs) == Counter(rs, 1, <<>>)

RECURSIVE stats_by_park(_, _, _)
stats_by_park(rs, i, stats) ==
    IF i > Len(rs) THEN stats
    ELSE stats_by_park(rs, i + 1, dict_append(stats, rs[i].park, rs[i].rating))

avg_rating_per_park(rs) == averages(stats_by_park(rs, 1, <<>>))

RECURSIVE stats_by_location(_, _, _, _)
stats_by_location(rs, park, i, stats) ==
    IF i > Len(rs) THEN stats
    ELSE IF same_park(rs[i], park)
         THEN stats_by_location(rs, park, i + 1,
                dict_append(stats, rs[i].location, rs[i].rating))
         ELSE stats_by_location(rs, park, i + 1, stats)

\* as insert_desc, but x goes before the items equal to it
insert_desc_unstable(done, x) ==
    LET lower_at == {j \in 1..Len(done) : ~Less(x.avg, done[j].avg)}
        at == IF lower_at = {} THEN Len(done) + 1
              ELSE CHOOSE j \in lower_at : \A k \in lower_at : j <= k
    IN  SubSeq(done, 1, at - 1) \o <<x>> \o SubSeq(done, at, Len(done))

\* one step of the stable descending sort: x goes before the first item
\* whose average is strictly lower, hence after every item equal to it
insert_desc(done, x) ==
    LET lower_at == {j \in 1..Len(done) : Less(done[j].avg, x.avg)}
        at == IF lower_at = {} THEN Len(done) + 1
              ELSE CHOOSE j \in lower_at : \A k \in lower_at : j <= k
    IN  SubSeq(done, 1, at - 1) \o <<x>> \o SubSeq(done, at, Len(done))

\* sorted(items, key=lambda x: x[1], reverse=True)
RECURSIVE sorted_desc(_, _, _)
sorted_desc(items, i, done) ==
    IF i > Len(items) THEN done
    ELSE sorted_desc(items, i + 1, insert_desc(done, items[i]))

\* seq[:top], a negative top counting from the end
slice_to(seq, top) ==
    LET stop == IF top >= 0 THEN (IF top < Len(seq) THEN top ELSE Len(seq))
                ELSE (IF Len(seq) + top > 0 THEN Len(seq) + top ELSE 0)
    IN  SubSeq(seq, 1, stop)

top_locations_for_park(rs, park, top) ==
    LET stats == stats_by_location(rs, park, 1, <<>>)
        avgs == averages(stats)
    IN  slice_to(sorted_desc(avgs, 1, <<>>), top)

month_map == <<
    [code |-> <<"0", "1">>, name |-> "Jan"], [code |-> <<"0", "2">>, name |-> "Feb"],
    [code |-> <<"0", "3">>, name |-> "Mar"], [code |-> <<"0", "4">>, name |-> "Apr"],
    [code |-> <<"0", "5">>, name |-> "May"], [code |-> <<"0", "6">>, name |-> "Jun"],
    [code |-> <<"0", "7">>, name |-> "Jul"], [code |-> <<"0", "8">>, name |-> "Aug"],
    [code |-> <<"0", "9">>, name |-> "Sep"], [code |-> <<"1", "0">>, name |-> "Oct"],
    [code |-> <<"1", "1">>, name |-> "Nov"], [code |-> <<"1", "2">>, name |-> "Dec"] >>

\* what month_map.get(month) returns for a code that is no key (Python's
\* None, here among month names)
NoMonth == "None"

\* month_map.get(month)
month_map_get(month) ==
    IF \E m \in 1..Len(month_map) : month_map[m].code = month
    THEN month_map[CHOOSE m \in 1..Len(month_map) : month_map[m].code = month].name
    ELSE NoMonth

\* the outcome of a call that may raise: the exception, or the value returned
Raised(e) == [raised |-> e, value |-> <<>>]
Returned(v) == [raised |-> "none", value |-> v]

\* the loop over the reviews: `_, month = split("-")` raises ValueError
\* unless the split yields exactly two pieces
RECURSIVE stats_by_month(_, _, _, _)
stats_by_month(rs, park, i, stats) ==
    IF i > Len(rs) THEN Returned(stats)
    ELSE IF ~same_park(rs[i], park) THEN stats_by_month(rs, park, i + 1, stats)
    ELSE LET pieces == split(rs[i].year_month)
         IN  IF Len(pieces) # 2 THEN Raised("ValueError")
             ELSE LET month_name == month_map_get(pieces[2])
                  IN  IF month_name # NoMonth
                      THEN stats_by_month(rs, park, i + 1,
                                dict_append(stats, month_name, rs[i].rating))
                      ELSE stats_by_month(rs, park, i + 1, stats)

\* the ordered dict of the twelve months, from the accumulated stats
ordered_months(stats) ==
    [m \in 1..Len(month_map) |->
        LET month_name == month_map[m].name
            hit == {j \in 1..Len(stats) : stats[j].key = month_name}
        IN  [key |-> month_name,
             avg |-> IF hit # {}
                     THEN LET v == stats[CHOOSE j \in hit : TRUE].vals
                          IN  Div(sum(v), Len(v))
                     ELSE Zero]]

avg_monthly_rating(rs, park) ==
    LET loop == stats_by_month(rs, park, 1, <<>>)
    IN  IF loop.raised # "none" THEN loop
        ELSE Returned(ordered_months(loop.value))

\* tmp[r.park][r.location].append(r.rating)
nested_append(tmp, p, l, v) ==
    IF \E i \in 1..Len(tmp) : tmp[i].key = p
    THEN [i \in 1..Len(tmp) |->
            IF tmp[i].key = p
            THEN [tmp[i] EXCEPT !.inner = dict_append(@, l, v)] ELSE tmp[i]]
    ELSE Append(tmp, [key |-> p, inner |-> dict_append(<<>>, l, v)])

RECURSIVE stats_by_park_location(_, _, _)
stats_by_park_location(rs, i, tmp) ==
    IF i > Len(rs) THEN tmp
    ELSE stats_by_park_location(rs, i + 1,
            nested_append(tmp, rs[i].park, rs[i].location, rs[i].rating))

avg_rating_per_park_location(rs) ==
    LET tmp == stats_by_park_location(rs, 1, <<>>)
    IN  [i \in 1..Len(tmp) |-> [key |-> tmp[i].key, inner |-> averages(tmp[i].inner)]]

\* as summ_update, but a rating counts as positive only above 4
summ_update_strict(summ, r) ==
    LET fresh == [key |-> r.park, reviews |-> 0, positive |-> 0, avg |-> 0, countries |-> {}]
        with == IF \E i \in 1..Len(summ) : summ[i].key = r.park
                THEN summ ELSE Append(summ, fresh)
    IN  [i \in 1..Len(with) |->
            IF with[i].key = r.park
            THEN [with[i] EXCEPT !.reviews = @ + 1,
                                 !.positive = @ + (IF r.rating > 4 THEN 1 ELSE 0),
                                 !.avg = @ + r.rating,
                                 !.countries = @ \cup {r.location}]
            ELSE with[i]]

\* s = summ[r.park] and the four updates of the loop body
summ_update(summ, r) ==
    LET fresh == [key |-> r.park, reviews |-> 0, positive |-> 0, avg |-> 0, countries |-> {}]
        with == IF \E i \in 1..Len(summ) : summ[i].key = r.park
                THEN summ ELSE Append(summ, fresh)
    IN  [i \in 1..Len(with) |->
            IF with[i].key = r.park
            THEN [with[i] EXCEPT !.reviews = @ + 1,
                                 !.positive = @ + (IF r.rating >= 4 THEN 1 ELSE 0),
                                 !.avg = @ + r.rating,
                                 !.countries = @ \cup {r.location}]
            ELSE with[i]]

RECURSIVE summ_loop(_, _, _)
summ_loop(rs, i, summ) ==
    IF i > Len(rs) THEN summ
    ELSE summ_loop(rs, i + 1, summ_update(summ, rs[i]))

\* as summ_finish, but the sum is rounded without being divided
summ_finish_sum(s) ==
    [s EXCEPT !.avg = round2(Div(s.avg, 1)),
              !.countries = Cardinality(s.countries)]

\* the closing loop: the sum becomes the rounded mean, the set its size
summ_finish(s) ==
    [s EXCEPT !.avg = round2(Div(s.avg, s.reviews)),
              !.countries = Cardinality(s.countries)]

park_summary(rs) ==
    LET summ == summ_loop(rs, 1, <<>>)
    IN  [i \in 1..Len(summ) |-> summ_finish(summ[i])]

----------------------------------------------------------------------------
(* The aggregation functions called on their own, as test_process.py calls *)
(* them: a dataset is drawn, one function is applied to it.                *)

NoCall == [op |-> "none"]

\* every sequence over S of length at most n
SeqsUpTo(S, n) == UNION {[1..k -> S] : k \in 0..n}

\* the rows of a source file, each with its row number as Review_ID
Rows(rs) == [i \in 1..Len(rs) |-> [rs[i] EXCEPT !.id = i]]

\* every dataset of at most n rows over the records S
Datasets(S, n) == {Rows(rs) : rs \in SeqsUpTo(S, n)}

\* nothing shown
NoScreen == [msg |-> ""]

\* nothing typed
NoInput == [kind |-> "none"]

\* the interactive program is not running
Library ==
    /\ pc = "library"
    /\ entered = <<>>
    /\ typed = NoInput
    /\ screen = NoScreen
    /\ files = {}

InitLibrary(Records, n) ==
    /\ reviews \in Datasets(Records, n)
    /\ call = NoCall
    /\ result = None
    /\ Library

program == <<reviews, pc, entered, typed, screen, files>>

(* Datasets whose periods and parks vary: the queries by year and by month *)

RatingsP == {0, 3, 5}
PeriodsP ==
    {Str_2019_01, Str_2020_02, Str_2019_13, Str_2019_1, Str_2019, Str_2019_01_05}
ParksP == {Str_paris, Str_Rome}
RecordsP ==
    {Review(0, r, p, Str_US, k) : r \in RatingsP, p \in PeriodsP, k \in ParksP}
ParkArgs == {Str_Paris, Str_Rome, Str_US}
YearArgs == {Str_2019, Str_2020}

CallAvgByParkYear ==
    /\ call = NoCall
    /\ \E park \in ParkArgs, year \in YearArgs :
        /\ call' = [op |-> "avg_rating_by_park_year", park |-> park, year |-> year]
        /\ result' = avg_rating_by_park_year(reviews, park, year)
    /\ UNCHANGED program

CallAvgMonthly ==
    /\ call = NoCall
    /\ \E park \in ParkArgs :
        /\ call' = [op |-> "avg_monthly_rating", park |-> park]
        /\ result' = avg_monthly_rating(reviews, park)
    /\ UNCHANGED program

InitPeriod == InitLibrary(RecordsP, MaxLenP)
NextPeriod == CallAvgByParkYear \/ CallAvgMonthly
SpecPeriod == InitPeriod /\ [][NextPeriod]_vars

(* Datasets whose locations vary: the ranking of locations *)

RatingsT == {3, 5}
LocationsT == {Str_US, Str_us, Str_Rome}
RecordsT ==
    {Review(0, r, Str_2019_01, l, k) : r \in RatingsT, l \in LocationsT, k \in ParksP}
TopArgs == (-1)..MaxTop

CallTopLocations ==
    /\ call = NoCall
    /\ \E park \in {Str_Paris, Str_Rome}, top \in TopArgs :
        /\ call' = [op |-> "top_locations_for_park", park |-> park, top |-> top]
        /\ result' = top_locations_for_park(reviews, park, top)
    /\ UNCHANGED program

CallAvgPerParkLocation ==
    /\ call = NoCall
    /\ call' = [op |-> "avg_rating_per_park_location"]
    /\ result' = avg_rating_per_park_location(reviews)
    /\ UNCHANGED program

InitTop == InitLibrary(RecordsT, MaxLen)
NextTop == CallTopLocations \/ CallAvgPerParkLocation
SpecTop == InitTop /\ [][NextTop]_vars

(* Datasets whose raw park strings vary: the per-park groupings *)

RatingsG == {3, 4, 6}
ParksG == {Str_Paris, Str_paris, Str_Rome}
RecordsG ==
    {Review(0, r, Str_2019_01, l, k) : r \in RatingsG, l \in {Str_US, Str_us}, k \in ParksG}

CallCountPerPark ==
    /\ call = NoCall
    /\ call' = [op |-> "reviews_count_per_park"]
    /\ result' = reviews_count_per_park(reviews)
    /\ UNCHANGED program

CallAvgPerPark ==
    /\ call = NoCall
    /\ call' = [op |-> "avg_rating_per_park"]
    /\ result' = avg_rating_per_park(reviews)
    /\ UNCHANGED program

CallParkSummary ==
    /\ call = NoCall
    /\ call' = [op |-> "park_summary"]
    /\ result' = park_summary(reviews)
    /\ UNCHANGED program

FilterArgs == {Str_PARIS, Str_paris, Str_Rome, Str_US}

CallFilterByPark ==
    /\ call = NoCall
    /\ \E park \in FilterArgs :
        /\ call' = [op |-> "get_reviews_by_park", park |-> park]
        /\ result' = get_reviews_by_park(reviews, park)
    /\ UNCHANGED program

InitGroup == InitLibrary(RecordsG, MaxLen)
NextGroup == CallCountPerPark \/ CallAvgPerPark \/ CallParkSummary \/ CallFilterByPark
SpecGroup == InitGroup /\ [][NextGroup]_vars

----------------------------------------------------------------------------
(* main.py: the interactive program.  A step runs from one wait for input *)
(* to the next.                                                            *)

EXPORTERS == {<<"T", "X", "T">>, <<"C", "S", "V">>, <<"J", "S", "O", "N">>}

\* the default of top_locations_for_park's `top`
DefaultTop == 10

ViewPrompts == {"view", "view1_park", "view2_park", "view2_loc", "view3_park", "view3_year"}
GraphPrompts == {"graph", "graph3_park", "graph4_park"}
Prompts == {"main", "export"} \cup ViewPrompts \cup GraphPrompts

\* the try blocks around a position of the program, innermost first
try_blocks(at) ==
    IF at \in ViewPrompts THEN <<"handle_view", "main loop", "main">>
    ELSE IF at \in GraphPrompts THEN <<"handle_graph", "main loop", "main">>
    ELSE IF at = "export" THEN <<"handle_export", "main loop", "main">>
    ELSE IF at = "main" THEN <<"main loop", "main">>
    ELSE <<"main">>

\* the classes under Exception; KeyboardInterrupt is not one of them
ExceptionClasses == {"ValueError", "ZeroDivisionError", "OSError", "Exception"}

\* as catches, but handle_graph's clause catches everything (a bare except)
catches_bare(block, exc) ==
    IF block = "handle_view" THEN exc \in {"ValueError", "ZeroDivisionError"}
    ELSE IF block = "handle_graph" THEN TRUE
    ELSE IF block = "handle_export" THEN exc \in ExceptionClasses
    ELSE IF block = "main loop" THEN exc = "KeyboardInterrupt"
    ELSE exc = "KeyboardInterrupt" \/ exc \in ExceptionClasses

\* the except clauses of each try block
catches(block, exc) ==
    IF block = "handle_view" THEN exc \in {"ValueError", "ZeroDivisionError"}
    ELSE IF block \in {"handle_graph", "handle_export"} THEN exc \in ExceptionClasses
    ELSE IF block = "main loop" THEN exc = "KeyboardInterrupt"
    ELSE exc = "KeyboardInterrupt" \/ exc \in ExceptionClasses

\* the try block whose except clause handles exc raised at a position
caught_by(at, exc) ==
    LET blocks == try_blocks(at)
        first == CHOOSE i \in 1..Len(blocks) :
                    /\ catches(blocks[i], exc)
                    /\ \A j \in 1..(i - 1) : ~catches(blocks[j], exc)
    IN  blocks[first]

\* what the handler shows, and where the program waits next
on_except(at, exc) ==
    LET block == caught_by(at, exc)
    IN  IF block = "handle_view"
        THEN [pc |-> "view", screen |-> [msg |-> "Error processing data: {e}", e |-> exc]]
        ELSE IF block = "handle_graph"
        THEN [pc |-> "graph", screen |-> [msg |-> "Error generating graph: {e}", e |-> exc]]
        ELSE IF block = "handle_export"
        THEN [pc |-> "main", screen |-> [msg |-> "Error exporting: {e}", e |-> exc]]
        ELSE IF block = "main loop"
        THEN [pc |-> "main", screen |-> [msg |-> "Operation cancelled by user."]]
        ELSE IF exc = "KeyboardInterrupt"
        THEN [pc |-> "done", screen |-> [msg |-> "Program terminated by user."]]
        ELSE [pc |-> "done", screen |-> [msg |-> "Fatal error: {e}", e |-> exc]]

\* tui.invalid_choice()
invalid_choice == [msg |-> "Invalid option."]

\* tui.show_msg(msg)
show_msg(msg) == [msg |-> msg]

\* tui.show_reviews(reviews)
show_reviews(rs) == [msg |-> "Total: {n} review(s)", rows |-> rs, n |-> Len(rs)]

\* tui.show_table(stats): each park's locations by descending average
show_table(stats) ==
    [msg |-> "table",
     rows |-> [i \in 1..Len(stats) |->
                [key |-> stats[i].key, rows |-> sorted_desc(stats[i].inner, 1, <<>>)]]]

\* bool(avg) for an Optional[float]
truthy(avg) == avg # None /\ avg.num # 0

\* as valid_year, but only the length is checked
valid_year_len(year) == Len(year) = 4

\* the year check of the annual average
valid_year(year) == isdigit(year) /\ Len(year) = 4

\* what was typed at a prompt
Line(at, text) == [kind |-> "line", at |-> at, text |-> text]

\* what one step leaves behind
Out(next, shown, made, returned) ==
    [pc |-> next, screen |-> shown, call |-> made, result |-> returned]

(* The records the program loads *)
RecordsM ==
    {Review(0, r, p, Str_US, Str_Paris) :
        r \in {0, 5}, p \in {Str_2019_01, Str_2019}}

MainLines == {<<"a">>, <<"B">>, <<"c">>, <<"x">>, <<"9">>, <<>>}
MenuLines == {<<"1">>, <<"2">>, <<"3">>, <<"4">>, <<"x">>, <<"7">>, Str_Blank}
ParkLines == {<<>>, Str_Blank, Str_paris, Str_Rome}
LocationLines == {<<>>, Str_s}
YearLines == {<<>>, Str_2019, Str_19, Str_20x9, Str_20190}
FormatLines == {<<>>, Str_txt, Str_CSV, Str_Json, Str_xml}

Init ==
    /\ pc = "start"
    /\ reviews = <<>>
    /\ call = NoCall
    /\ result = None
    /\ entered = <<>>
    /\ typed = NoInput
    /\ screen = NoScreen
    /\ files = {}

\* main(): the dataset is loaded, the main menu is shown
Load ==
    /\ pc = "start"
    /\ \E rs \in Datasets(RecordsM, MaxRows) :
        /\ reviews' = rs
        /\ screen' = [msg |-> "Dataset loaded with {n} lines.", n |-> Len(rs)]
    /\ pc' = "main"
    /\ UNCHANGED <<call, result, entered, typed, files>>

\* main(): load_reviews raises (no file, or a Rating that is no integer)
LoadFails ==
    /\ pc = "start"
    /\ \E exc \in {"OSError", "ValueError"} :
        /\ pc' = on_except("start", exc).pc
        /\ screen' = on_except("start", exc).screen
    /\ UNCHANGED <<reviews, call, result, entered, typed, files>>

\* Ctrl-C while the program loads or waits for input
KeyboardInterrupt ==
    /\ pc \in Prompts \cup {"start"}
    /\ typed' = [kind |-> "interrupt", at |-> pc]
    /\ pc' = on_except(pc, "KeyboardInterrupt").pc
    /\ screen' = on_except(pc, "KeyboardInterrupt").screen
    /\ call' = NoCall
    /\ result' = None
    /\ entered' = <<>>
    /\ UNCHANGED <<reviews, files>>

\* main(): one pass of the main menu loop
main_step(choice) ==
    IF upper(choice) = <<"A">> THEN Out("view", NoScreen, NoCall, None)
    ELSE IF upper(choice) = <<"B">> THEN Out("graph", NoScreen, NoCall, None)
    ELSE IF upper(choice) = <<"C">> THEN Out("export", NoScreen, NoCall, None)
    ELSE IF upper(choice) = <<"X">> THEN Out("done", show_msg("Exiting..."), NoCall, None)
    ELSE Out("main", invalid_choice, NoCall, None)

MainMenu ==
    /\ pc = "main"
    /\ \E line \in MainLines :
        LET o == main_step(strip(line))
        IN  /\ typed' = Line(pc, line)
            /\ pc' = o.pc
            /\ screen' = o.screen
            /\ call' = o.call
            /\ result' = o.result
    /\ entered' = <<>>
    /\ UNCHANGED <<reviews, files>>

\* handle_view(): the option is read
view_step(rs, option) ==
    IF option = <<"1">> THEN Out("view1_park", NoScreen, NoCall, None)
    ELSE IF option = <<"2">> THEN Out("view2_park", NoScreen, NoCall, None)
    ELSE IF option = <<"3">> THEN Out("view3_park", NoScreen, NoCall, None)
    ELSE IF option = <<"4">>
    THEN LET stats == avg_rating_per_park_location(rs)
         IN  Out("view", show_table(stats), [op |-> "avg_rating_per_park_location"], stats)
    ELSE IF upper(option) = <<"X">> THEN Out("main", NoScreen, NoCall, None)
    ELSE Out("view", invalid_choice, NoCall, None)

ViewMenu ==
    /\ pc = "view"
    /\ \E line \in MenuLines :
        LET o == view_step(reviews, strip(line))
        IN  /\ typed' = Line(pc, line)
            /\ pc' = o.pc
            /\ screen' = o.screen
            /\ call' = o.call
            /\ result' = o.result
    /\ entered' = <<>>
    /\ UNCHANGED <<reviews, files>>

\* handle_view(), option 1: the park is read
view1_step(rs, p) ==
    IF p = <<>> THEN Out("view", show_msg("Park cannot be empty."), NoCall, None)
    ELSE LET data == get_reviews_by_park(rs, p)
         IN  Out("view", show_reviews(data), [op |-> "get_reviews_by_park", park |-> p], data)

View1Park ==
    /\ pc = "view1_park"
    /\ \E line \in ParkLines :
        LET o == view1_step(reviews, strip(line))
        IN  /\ typed' = Line(pc, line)
            /\ pc' = o.pc
            /\ screen' = o.screen
            /\ call' = o.call
            /\ result' = o.result
    /\ entered' = <<>>
    /\ UNCHANGED <<reviews, files>>

\* handle_view(), option 2: the park is read, the location is asked for
View2Park ==
    /\ pc = "view2_park"
    /\ \E line \in ParkLines :
        /\ typed' = Line(pc, line)
        /\ entered' = strip(line)
    /\ pc' = "view2_loc"
    /\ screen' = NoScreen
    /\ call' = NoCall
    /\ result' = None
    /\ UNCHANGED <<reviews, files>>

\* handle_view(), option 2: the location is read
view2_step(rs, p, l) ==
    IF p = <<>> \/ l = <<>>
    THEN Out("view", show_msg("Park and location cannot be empty."), NoCall, None)
    ELSE LET total == count_reviews_by_park_and_location(rs, p, l)
         IN  Out("view", [msg |-> "Total: {total} review(s)", total |-> total],
                 [op |-> "count_reviews_by_park_and_location", park |-> p, loc |-> l],
                 total)

View2Location ==
    /\ pc = "view2_loc"
    /\ \E line \in LocationLines :
        LET o == view2_step(reviews, entered, strip(line))
        IN  /\ typed' = Line(pc, line)
            /\ pc' = o.pc
            /\ screen' = o.screen
            /\ call' = o.call
            /\ result' = o.result
    /\ entered' = <<>>
    /\ UNCHANGED <<reviews, files>>

\* handle_view(), option 3: the park is read, the year is asked for
View3Park ==
    /\ pc = "view3_park"
    /\ \E line \in ParkLines :
        /\ typed' = Line(pc, line)
        /\ entered' = strip(line)
    /\ pc' = "view3_year"
    /\ screen' = NoScreen
    /\ call' = NoCall
    /\ result' = None
    /\ UNCHANGED <<reviews, files>>

\* handle_view(), option 3: the year is read
view3_step(rs, p, year) ==
    IF p = <<>> \/ year = <<>>
    THEN Out("view", show_msg("Park and year cannot be empty."), NoCall, None)
    ELSE IF ~valid_year(year)
    THEN Out("view", show_msg("Year must be in YYYY format."), NoCall, None)
    ELSE LET avg == avg_rating_by_park_year(rs, p, year)
         IN  Out("view",
                 IF truthy(avg)
                 THEN [msg |-> "Average for {park} in {year}: {avg:.2f}",
                       park |-> p, year |-> year, avg |-> format_2f(avg)]
                 ELSE show_msg("No data."),
                 [op |-> "avg_rating_by_park_year", park |-> p, year |-> year],
                 avg)

View3Year ==
    /\ pc = "view3_year"
    /\ \E line \in YearLines :
        LET o == view3_step(reviews, entered, strip(line))
        IN  /\ typed' = Line(pc, line)
            /\ pc' = o.pc
            /\ screen' = o.screen
            /\ call' = o.call
            /\ result' = o.result
    /\ entered' = <<>>
    /\ UNCHANGED <<reviews, files>>

\* a visual.* call: the chart is shown, or the rendering raises
render(at, chart, data, drawn) ==
    IF drawn THEN [pc |-> "graph", screen |-> [msg |-> "chart", chart |-> chart, data |-> data]]
    ELSE on_except(at, "Exception")

\* handle_graph(): the option is read
graph_step(rs, option, drawn) ==
    IF option = <<"1">>
    THEN LET cnts == reviews_count_per_park(rs)
             r == render("graph", "pie_reviews_per_park", cnts, drawn)
         IN  Out(r.pc, r.screen, [op |-> "reviews_count_per_park"], cnts)
    ELSE IF option = <<"2">>
    THEN LET avgs == avg_rating_per_park(rs)
             r == render("graph", "bar_avg_rating_per_park", avgs, drawn)
         IN  Out(r.pc, r.screen, [op |-> "avg_rating_per_park"], avgs)
    ELSE IF option = <<"3">> THEN Out("graph3_park", NoScreen, NoCall, None)
    ELSE IF option = <<"4">> THEN Out("graph4_park", NoScreen, NoCall, None)
    ELSE IF upper(option) = <<"X">> THEN Out("main", NoScreen, NoCall, None)
    ELSE Out("graph", invalid_choice, NoCall, None)

GraphMenu ==
    /\ pc = "graph"
    /\ \E line \in MenuLines, drawn \in BOOLEAN :
        LET o == graph_step(reviews, strip(line), drawn)
        IN  /\ typed' = Line(pc, line)
            /\ pc' = o.pc
            /\ screen' = o.screen
            /\ call' = o.call
            /\ result' = o.result
    /\ entered' = <<>>
    /\ UNCHANGED <<reviews, files>>

\* handle_graph(), option 3: the park is read
graph3_step(rs, p, drawn) ==
    IF p = <<>> THEN Out("graph", show_msg("Park cannot be empty."), NoCall, None)
    ELSE LET data == top_locations_for_park(rs, p, DefaultTop)
             r == render("graph3_park", "bar_top_locations", data, drawn)
         IN  Out(r.pc, r.screen,
                 [op |-> "top_locations_for_park", park |-> p, top |-> DefaultTop], data)

Graph3Park ==
    /\ pc = "graph3_park"
    /\ \E line \in ParkLines, drawn \in BOOLEAN :
        LET o == graph3_step(reviews, strip(line), drawn)
        IN  /\ typed' = Line(pc, line)
            /\ pc' = o.pc
            /\ screen' = o.screen
            /\ call' = o.call
            /\ result' = o.result
    /\ entered' = <<>>
    /\ UNCHANGED <<reviews, files>>

\* handle_graph(), option 4: the park is read
graph4_step(rs, p, drawn) ==
    IF p = <<>> THEN Out("graph", show_msg("Park cannot be empty."), NoCall, None)
    ELSE LET data == avg_monthly_rating(rs, p)
             r == IF data.raised # "none" THEN on_except("graph4_park", data.raised)
                  ELSE render("graph4_park", "bar_monthly_rating", data.value, drawn)
         IN  Out(r.pc, r.screen, [op |-> "avg_monthly_rating", park |-> p], data)

Graph4Park ==
    /\ pc = "graph4_park"
    /\ \E line \in ParkLines, drawn \in BOOLEAN :
        LET o == graph4_step(reviews, strip(line), drawn)
        IN  /\ typed' = Line(pc, line)
            /\ pc' = o.pc
            /\ screen' = o.screen
            /\ call' = o.call
            /\ result' = o.result
    /\ entered' = <<>>
    /\ UNCHANGED <<reviews, files>>

\* cls().export(summary, path): the file at path now holds the summary
export(fs, cls, summary, path) ==
    {f \in fs : f.path # path} \cup {[path |-> path, exporter |-> cls, summary |-> summary]}

\* handle_export(): the format is read; `saved` is whether the file could
\* be written
export_step(rs, fs, fmt, saved) ==
    IF fmt = <<>>
    THEN [out |-> Out("main", show_msg("Format cannot be empty."), NoCall, None), files |-> fs]
    ELSE IF upper(fmt) \notin EXPORTERS
    THEN [out |-> Out("main", invalid_choice, NoCall, None), files |-> fs]
    ELSE LET path == Str_summary_dot \o lower(fmt)
             summary == park_summary(rs)
         IN  IF saved
             THEN [out |-> Out("main", [msg |-> "File saved at {path}", path |-> path],
                               [op |-> "park_summary"], summary),
                   files |-> export(fs, upper(fmt), summary, path)]
             ELSE [out |-> Out("main", on_except("export", "OSError").screen,
                               [op |-> "park_summary"], summary),
                   files |-> fs]

ExportMenu ==
    /\ pc = "export"
    /\ \E line \in FormatLines, saved \in BOOLEAN :
        LET e == export_step(reviews, files, strip(line), saved)
        IN  /\ typed' = Line(pc, line)
            /\ pc' = e.out.pc
            /\ screen' = e.out.screen
            /\ call' = e.out.call
            /\ result' = e.out.result
            /\ files' = e.files
    /\ entered' = <<>>
    /\ UNCHANGED reviews

Next ==
    \/ Load
    \/ LoadFails
    \/ KeyboardInterrupt
    \/ MainMenu
    \/ ViewMenu
    \/ View1Park
    \/ View2Park
    \/ View2Location
    \/ View3Park
    \/ View3Year
    \/ GraphMenu
    \/ Graph3Park
    \/ Graph4Park
    \/ ExportMenu

Spec == Init /\ [][Next]_vars

----------------------------------------------------------------------------
(* What the properties speak of *)

Idx == 1..Len(reviews)

\* the sum of the ratings of the records at the positions S
RECURSIVE RatingSum(_)
RatingSum(S) ==
    IF S = {} THEN 0
    ELSE LET i == CHOOSE j \in S : TRUE
         IN  reviews[i].rating + RatingSum(S \ {i})

Mean(S) == Div(RatingSum(S), Cardinality(S))

\* the positions of the records of a park, case-insensitively
OfPark(park) == {i \in Idx : lower(reviews[i].park) = lower(park)}

\* 0 <= x <= 5
InZeroToFive(x) == x.num >= 0 /\ x.num <= 5 * x.den

----------------------------------------------------------------------------
(* avg_rating_by_park_year *)

YearMatches(park, year) ==
    {i \in OfPark(park) : startswith(reviews[i].year_month, year)}

\* C1: when no record matches park (case-insensitively) and year (as a prefix
\* of the period) the result is None, not the number 0 and not an exception;
\* otherwise it is the sum of the matching ratings divided by their count.
C1_AvgByParkYear ==
    call.op = "avg_rating_by_park_year" =>
        LET M == YearMatches(call.park, call.year)
        IN  IF M = {} THEN result = None /\ result # Zero
            ELSE result = Mean(M)

\* a park that has records, none of them in the year asked for
C1_Witness ==
    /\ call.op = "avg_rating_by_park_year"
    /\ OfPark(call.park) # {}
    /\ YearMatches(call.park, call.year) = {}
    /\ result = None

----------------------------------------------------------------------------
(* avg_monthly_rating *)

MonthNames ==
    <<"Jan", "Feb", "Mar", "Apr", "May", "Jun", "Jul", "Aug", "Sep", "Oct", "Nov", "Dec">>

\* the two-digit code of month m
MonthCode(m) == <<DigitChar[(m \div 10) + 1], DigitChar[(m % 10) + 1]>>

\* the period splits on "-" into a year and the code of month m
InMonth(period, m) ==
    LET pieces == split(period)
    IN  Len(pieces) = 2 /\ pieces[2] = MonthCode(m)

\* a period that yields no known month code
Malformed(period) == \A m \in 1..12 : ~InMonth(period, m)

\* C3: the call returns exactly the 12 entries Jan..Dec in calendar order,
\* each the mean of the park's records of that month, or 0 when there is
\* none, whatever the records' period strings are.
C3_TwelveMonths ==
    call.op = "avg_monthly_rating" =>
        /\ result.raised = "none"
        /\ Len(result.value) = 12
        /\ \A m \in 1..12 :
            LET S == {i \in OfPark(call.park) : InMonth(reviews[i].year_month, m)}
            IN  /\ result.value[m].key = MonthNames[m]
                /\ result.value[m].avg = (IF S = {} THEN Zero ELSE Mean(S))

\* the sequence without its i-th element
Without(seq, i) == SubSeq(seq, 1, i - 1) \o SubSeq(seq, i + 1, Len(seq))

\* C4: a record of the requested park whose period is malformed is silently
\* skipped: no error is raised and the result is that of the input without
\* the record.
C4_MalformedSkipped ==
    call.op = "avg_monthly_rating" =>
        \A i \in OfPark(call.park) :
            Malformed(reviews[i].year_month) =>
                /\ result.raised = "none"
                /\ result = avg_monthly_rating(Without(reviews, i), call.park)

----------------------------------------------------------------------------
(* top_locations_for_park *)

\* the positions of the park's records with exactly this location
AtLocation(park, l) == {i \in OfPark(park) : reviews[i].location = l}

\* where a location of the park is first met in the input
FirstAt(park, l) ==
    CHOOSE i \in AtLocation(park, l) : \A j \in AtLocation(park, l) : i <= j

Ranking(park, top) ==
    LET locs == {reviews[i].location : i \in OfPark(park)}
        kept == {result[n].key : n \in 1..Len(result)}
    IN  /\ Len(result) <= top
        /\ \A n \in 1..Len(result) :
            /\ result[n].key \in locs
            /\ result[n].avg = Mean(AtLocation(park, result[n].key))
        /\ \A n, k \in 1..Len(result) :
            n < k =>
                /\ result[n].key # result[k].key
                /\ ~Less(result[n].avg, result[k].avg)
                /\ result[n].avg = result[k].avg =>
                        FirstAt(park, result[n].key) < FirstAt(park, result[k].key)
        /\ \A l \in locs \ kept : \A n \in 1..Len(result) :
            ~Less(result[n].avg, Mean(AtLocation(park, l)))

\* C8 as stated: the ranking properties for every top, negative ones included
C8_AnyTop ==
    call.op = "top_locations_for_park" => Ranking(call.park, call.top)

\* C8: for every top >= 0 the output has at most top entries, in
\* non-increasing order of average, each the mean of the park's records of
\* that exact location, no omitted location has a strictly higher average
\* than an included one, and equal averages keep first-encounter order.
C8_TopLocations ==
    (call.op = "top_locations_for_park" /\ call.top >= 0) =>
        Ranking(call.park, call.top)

\* three locations, cut to two that tie
C8_Witness ==
    /\ call.op = "top_locations_for_park"
    /\ call.top = 2
    /\ Cardinality({reviews[i].location : i \in OfPark(call.park)}) = 3
    /\ Len(result) = 2
    /\ result[1].avg = result[2].avg

----------------------------------------------------------------------------
(* reviews_count_per_park *)

RECURSIVE CountSum(_)
CountSum(c) == IF c = <<>> THEN 0 ELSE c[1].count + CountSum(Tail(c))

\* C9: for a non-empty input the counts sum to the number of records; every
\* key is a raw park string of the input, its count is the number of records
\* with exactly that string, and is at least 1.
C9_CountPerPark ==
    (call.op = "reviews_count_per_park" /\ reviews # <<>>) =>
        /\ CountSum(result) = Len(reviews)
        /\ \A n \in 1..Len(result) :
            /\ result[n].key \in {reviews[i].park : i \in Idx}
            /\ result[n].count = Cardinality({i \in Idx : reviews[i].park = result[n].key})
            /\ result[n].count >= 1
        /\ \A n, k \in 1..Len(result) : n # k => result[n].key # result[k].key

\* two spellings of one park, counted apart
C9_Witness ==
    /\ call.op = "reviews_count_per_park"
    /\ Len(reviews) >= 3
    /\ \E n, k \in 1..Len(result) :
        /\ n # k
        /\ lower(result[n].key) = lower(result[k].key)
        /\ result[n].count >= 2

----------------------------------------------------------------------------
(* park_summary *)

\* C10: for every park of the output positive <= reviews, countries <=
\* reviews, countries >= 1 and reviews >= 1, and when every rating is in
\* 1..5 the average satisfies 0 <= avg <= 5.
C10_SummaryBounds ==
    call.op = "park_summary" =>
        \A n \in 1..Len(result) :
            /\ result[n].positive <= result[n].reviews
            /\ result[n].countries <= result[n].reviews
            /\ result[n].countries >= 1
            /\ result[n].reviews >= 1
            /\ (\A i \in Idx : reviews[i].rating \in 1..5) =>
                    InZeroToFive(result[n].avg)

\* a park with ratings in the domain, some of them not positive, and fewer
\* locations than reviews
C10_Witness ==
    /\ call.op = "park_summary"
    /\ \A i \in Idx : reviews[i].rating \in 1..5
    /\ \E n \in 1..Len(result) :
        /\ result[n].reviews >= 2
        /\ result[n].positive >= 1
        /\ result[n].positive < result[n].reviews
        /\ result[n].countries < result[n].reviews

----------------------------------------------------------------------------
(* The annual average on the screen *)

\* C2: view option 3 shows 'No data.' exactly when avg_rating_by_park_year
\* returned None, and shows the numeric average whenever it returned a
\* number, an average of exactly 0 included.
C2_NoDataDistinct ==
    call.op = "avg_rating_by_park_year" =>
        /\ (screen = show_msg("No data.")) <=> (result = None)
        /\ result # None =>
            /\ screen.msg = "Average for {park} in {year}: {avg:.2f}"
            /\ screen.avg = format_2f(result)

----------------------------------------------------------------------------
(* Interrupts *)

SubPrompts == ViewPrompts \cup GraphPrompts \cup {"export"}

\* C5: an interrupt that arrives at the main-menu prompt terminates the
\* program: no main-menu prompt follows it.
C5_InterruptAtMainTerminates ==
    (typed.kind = "interrupt" /\ typed.at = "main") => pc = "done"

\* C6: an interrupt that arrives while the view submenu, the graph submenu
\* or the export prompt waits for input abandons that operation only: the
\* program goes on, the dataset is unchanged and the main menu prompts next.
C6_InterruptInSubOperation ==
    [][(pc \in SubPrompts /\ typed'.kind = "interrupt" /\ typed'.at = pc) =>
            /\ pc' = "main"
            /\ reviews' = reviews
            /\ screen' = show_msg("Operation cancelled by user.")]_vars

\* interrupted while the year of the annual average was awaited
C6_Witness ==
    /\ typed.kind = "interrupt"
    /\ typed.at = "view3_year"
    /\ pc = "main"
    /\ reviews # <<>>

----------------------------------------------------------------------------
(* Invalid input *)

FourDigits(text) == Len(text) = 4 /\ \A i \in 1..Len(text) : text[i] \in Digits

\* the answer that completes a command is one the program must refuse;
\* `park` is the answer given before it in the same dialogue
Invalid(at, text, p) ==
    IF at = "main" THEN upper(text) \notin {<<"A">>, <<"B">>, <<"C">>, <<"X">>}
    ELSE IF at \in {"view", "graph"}
    THEN text \notin {<<"1">>, <<"2">>, <<"3">>, <<"4">>, <<"x">>, <<"X">>}
    ELSE IF at \in {"view1_park", "graph3_park", "graph4_park"} THEN text = <<>>
    ELSE IF at = "view2_loc" THEN p = <<>> \/ text = <<>>
    ELSE IF at = "view3_year" THEN p = <<>> \/ text = <<>> \/ ~FourDigits(text)
    ELSE IF at = "export"
    THEN upper(text) \notin {<<"T", "X", "T">>, <<"C", "S", "V">>, <<"J", "S", "O", "N">>}
    ELSE FALSE

EnclosingMenu(at) ==
    IF at \in ViewPrompts THEN "view"
    ELSE IF at \in GraphPrompts THEN "graph"
    ELSE "main"

Complaints ==
    {"Invalid option.", "Park cannot be empty.", "Park and location cannot be empty.",
     "Park and year cannot be empty.", "Year must be in YYYY format.",
     "Format cannot be empty."}

\* C7: an empty required field, a year that is not exactly 4 digits, an
\* unrecognized menu choice or an unrecognized export format is answered by
\* a message, makes no call of an aggregation function and writes no export
\* file, and the enclosing menu prompts next; the program keeps running.
C7_InvalidInputNotFatal ==
    [][(typed'.kind = "line" /\ typed'.at = pc
            /\ Invalid(pc, strip(typed'.text), entered)) =>
            /\ screen'.msg \in Complaints
            /\ call' = NoCall
            /\ files' = files
            /\ pc' = EnclosingMenu(pc)
            /\ pc' # "done"]_vars

\* a year with a letter in it was refused
C7_Witness ==
    /\ typed = Line("view3_year", Str_20x9)
    /\ screen = show_msg("Year must be in YYYY format.")
    /\ call = NoCall
    /\ pc = "view"

\* the positions of the records with exactly this raw park string
WithPark(k) == {i \in Idx : reviews[i].park = k}

\* x is a whole number of hundredths, and no other is nearer to s / n
NearestHundredth(x, s, n) ==
    LET h == x.num * (100 \div x.den)
    IN  /\ 100 % x.den = 0
        /\ 2 * Abs(h * n - 100 * s) <= n

\* C11: the output has exactly one entry per distinct raw park string of the
\* input, so a park without records has none; for each, reviews is the
\* number of its records, positive the number of those rated 4 or more, avg
\* the sum of its ratings divided by reviews and rounded to 2 decimals, and
\* countries the number of distinct raw location strings among them.
C11_SummaryResult ==
    call.op = "park_summary" =>
        /\ {result[n].key : n \in 1..Len(result)} = {reviews[i].park : i \in Idx}
        /\ Len(result) = Cardinality({reviews[i].park : i \in Idx})
        /\ \A n \in 1..Len(result) :
            LET S == WithPark(result[n].key)
            IN  /\ result[n].reviews = Cardinality(S)
                /\ result[n].positive = Cardinality({i \in S : reviews[i].rating >= 4})
                /\ NearestHundredth(result[n].avg, RatingSum(S), Cardinality(S))
                /\ result[n].countries = Cardinality({reviews[i].location : i \in S})

\* a park of three records over two locations, some rated 4 or more and
\* some less, whose mean is not a whole number of hundredths
C11_Witness ==
    /\ call.op = "park_summary"
    /\ \E n \in 1..Len(result) :
        /\ result[n].reviews = 3
        /\ result[n].positive \in {1, 2}
        /\ result[n].countries = 2
        /\ result[n].avg # Mean(WithPark(result[n].key))

----------------------------------------------------------------------------
(* get_reviews_by_park against reviews_count_per_park *)

\* the sum of the counts at the positions S of a count map
RECURSIVE CountOver(_, _)
CountOver(c, S) ==
    IF S = {} THEN 0
    ELSE LET n == CHOOSE k \in S : TRUE
         IN  c[n].count + CountOver(c, S \ {n})

\* C12: the number of records get_reviews_by_park returns for p equals the
\* sum of the reviews_count_per_park counts over the raw keys equal to p
\* case-insensitively; the records returned are those of the input, each
\* once and in input order.
C12_FilterMatchesCounts ==
    call.op = "get_reviews_by_park" =>
        LET counts == reviews_count_per_park(reviews)
            keys == {n \in 1..Len(counts) : lower(counts[n].key) = lower(call.park)}
        IN  /\ Len(result) = CountOver(counts, keys)
            /\ {result[k].id : k \in 1..Len(result)} = OfPark(call.park)
            /\ \A k \in 1..Len(result) : result[k] = reviews[result[k].id]
            /\ \A j, k \in 1..Len(result) : j < k => result[j].id < result[k].id

\* two spellings of the park returned together, a record of another park
\* left out
C12_Witness ==
    /\ call.op = "get_reviews_by_park"
    /\ Len(result) = 2
    /\ result[1].park # result[2].park
    /\ Len(reviews) = 3

====
